---- MODULE Spec2Model ----
(***************************************************************************)
(* Model of the earnings volatility scanner (src/app.py): the metric       *)
(* extractors, the scoring function and the scan loop with its filter,     *)
(* its per-ticker delay and its final ranking.                             *)
(*                                                                         *)
(* Numbers.  The provider's prices are written as integers in thousandths  *)
(* of a dollar, implied volatilities in hundredths, closes in dollars;     *)
(* each stands for the IEEE-754 binary64 nearest to that decimal.  Every   *)
(* computed number is a binary64, [k, s, m, e] = s * m * 2^e with a 53-bit *)
(* m, and +, -, *, / round to nearest, ties to even, as the hardware does. *)
(* Displayed fields are integers in hundredths (two decimals).             *)
(***************************************************************************)
EXTENDS Integers, Sequences, FiniteSets, TLC

\* ------------------------------------------------------------- bounds
\* largest value of the "Max Symbols To Scan" slider explored
MaxSymbols == 2
\* largest open interest of one contract explored for oi_imbalance
MaxOI == 4

\* ------------------------------------------- natural numbers of any size
\* a natural number as its digits in base 2^15, least significant first,
\* without leading zero digits (zero is the empty sequence)
B15 == 2^15

Abs(x) == IF x < 0 THEN -x ELSE x

Min(a, b) == IF a < b THEN a ELSE b

Max(S) == CHOOSE m \in S : \A n \in S : n <= m

\* the number of binary digits of a base-2^15 digit
BitLen(n) == CHOOSE k \in 0..15 : n < 2^k /\ (k = 0 \/ n >= 2^(k - 1))

Limb(x, i) == IF 1 <= i /\ i <= Len(x) THEN x[i] ELSE 0

BNorm(x) ==
    LET nz == {i \in 1..Len(x) : x[i] # 0}
    IN  IF nz = {} THEN <<>> ELSE SubSeq(x, 1, Max(nz))

\* for 0 <= n < 2^31
BFromInt(n) == BNorm(<<n % B15, (n \div B15) % B15, n \div (B15 * B15)>>)

\* for x < 2^31
BToInt(x) == Limb(x, 1) + B15 * Limb(x, 2) + B15 * B15 * Limb(x, 3)

\* the number whose n digits, before carrying, are t[1..n] with
\* t[i] <= 2^16 - 2, so that no carry exceeds 1: a carry enters digit i when
\* some lower digit overflows and every digit in between is full
BCarry(t, n) ==
    LET c(i) == IF \E j \in 1..(i - 1) :
                     t[j] >= B15 /\ \A l \in (j + 1)..(i - 1) : t[l] = B15 - 1
                THEN 1 ELSE 0
    IN  BNorm([i \in 1..n |-> (t[i] + c(i)) % B15])

BAdd(a, b) ==
    LET n == Max({Len(a), Len(b)}) + 1
    IN  BCarry([i \in 1..n |-> Limb(a, i) + Limb(b, i)], n)

\* a - b for a >= b: a borrow leaves digit i when some lower digit falls
\* short and every digit in between is level
BSub(a, b) ==
    LET t == [i \in 1..Len(a) |-> a[i] - Limb(b, i)]
        c(i) == IF \E j \in 1..(i - 1) :
                     t[j] < 0 /\ \A l \in (j + 1)..(i - 1) : t[l] = 0
                THEN 1 ELSE 0
    IN  BNorm([i \in 1..Len(a) |-> (t[i] - c(i) + B15) % B15])

\* -1, 0 or 1 as a < b, a = b or a > b
BCmp(a, b) ==
    IF Len(a) # Len(b) THEN (IF Len(a) < Len(b) THEN -1 ELSE 1)
    ELSE LET diff == {i \in 1..Len(a) : a[i] # b[i]}
         IN  IF diff = {} THEN 0
             ELSE IF a[Max(diff)] < b[Max(diff)] THEN -1 ELSE 1

\* a * k for 0 <= k < 2^15
BMulSmall(a, k) ==
    LET n == Len(a) + 1
    IN  BCarry([i \in 1..n |-> ((Limb(a, i) * k) % B15) + ((Limb(a, i - 1) * k) \div B15)], n)

\* a * b for a and b of at most four digits.  p[i][k] is the product of
\* digit i of a with the digit of b that puts it in column k; the products
\* of a column are added in halves (c), the high halves move one column up
\* (u), and what is left is carried.
BMulDigits(u) == BCarry([k \in 1..9 |-> (u[k] % B15) + (u[k - 1] \div B15)], 9)

BMulColumns(c) ==
    BMulDigits([k \in 0..9 |-> c[k].lo + (IF k = 0 THEN 0 ELSE c[k - 1].hi)])

BMulHalves(p) ==
    BMulColumns([k \in 0..9 |->
        [lo |-> (p[1][k] % B15) + (p[2][k] % B15) + (p[3][k] % B15) + (p[4][k] % B15),
         hi |-> (p[1][k] \div B15) + (p[2][k] \div B15) + (p[3][k] \div B15)
                + (p[4][k] \div B15)]])

BMul(a, b) ==
    BMulHalves([i \in 1..4 |-> [k \in 0..9 |-> Limb(a, i) * Limb(b, k + 1 - i)]])

\* a * 2^n
BShl(a, n) ==
    IF a = <<>> THEN <<>>
    ELSE [i \in 1..(n \div 15) |-> 0] \o BMulSmall(a, 2^(n % 15))

\* a \div 2^n
BShr(a, n) ==
    LET w == n \div 15
        b == n % 15
    IN  IF Len(a) <= w THEN <<>>
        ELSE BNorm([i \in 1..(Len(a) - w) |->
                      (a[i + w] \div 2^b) + (Limb(a, i + w + 1) % 2^b) * 2^(15 - b)])

\* a % 2^n
BLow(a, n) ==
    LET w == n \div 15
        b == n % 15
    IN  IF Len(a) <= w THEN a
        ELSE BNorm(SubSeq(a, 1, w) \o <<a[w + 1] % 2^b>>)

BBitLen(a) == IF a = <<>> THEN 0 ELSE 15 * (Len(a) - 1) + BitLen(a[Len(a)])

\* 2^n
BPow2(n) == [i \in 1..(n \div 15) |-> 0] \o <<2^(n % 15)>>

BOdd(a) == a # <<>> /\ a[1] % 2 = 1

\* the largest k with k * d <= r, for d <= r < 2^14 * d: the quotient of
\* the leading bits of r by those of d (rounded up) is k or k - 1
Estimate(r, d, s) ==
    IF s <= 0 THEN BToInt(r) \div BToInt(d)
    ELSE BToInt(BShr(r, s)) \div (BToInt(BShr(d, s)) + 1)

Adjust(r, d, est) ==
    CASE est >= 0 -> IF BCmp(BMulSmall(d, est + 1), r) <= 0 THEN est + 1 ELSE est

Digit(r, d) == Adjust(r, d, Estimate(r, d, BBitLen(d) - 16))

\* one step of the long division: q14 is the quotient so far with a zero
\* digit appended, r14 the remainder so far with the next digit of the
\* dividend brought down
DivDigit(q14, r14, d, digit) ==
    CASE digit >= 1 ->
        [q |-> BAdd(q14, BFromInt(digit)), r |-> BSub(r14, BMulSmall(d, digit))]

DivBroughtDown(q14, r14, d) ==
    IF BCmp(r14, d) < 0 THEN [q |-> q14, r |-> r14]
    ELSE DivDigit(q14, r14, d, Digit(r14, d))

DivStep(h, low, d) ==
    CASE Len(h.q) >= 0 -> DivBroughtDown(BShl(h.q, 14), BAdd(BShl(h.r, 14), low), d)

\* n = q * d + r with 0 <= r < d, by long division in base 2^14: the leading
\* digits of n are divided first, then the last digit is brought down
RECURSIVE BDivMod(_, _)
BDivMod(n, d) ==
    IF BCmp(n, d) < 0 THEN [q |-> <<>>, r |-> n]
    ELSE DivStep(BDivMod(BShr(n, 14), d), BLow(n, 14), d)

\* ------------------------------------------------ binary64 arithmetic
\* a binary64 value: not-a-number, an infinity, or s * m * 2^e with s the
\* sign, m a natural number of exactly 53 bits (or zero, with e = 0).  The
\* exponent is not limited: no value of the program is near the range ends.
F64(s, m, e) == [k |-> "num", s |-> s, m |-> m, e |-> e]

FNaN == [k |-> "nan", s |-> 1, m |-> <<>>, e |-> 0]
FInf(s) == [k |-> "inf", s |-> s, m |-> <<>>, e |-> 0]
FZero == F64(1, <<>>, 0)

\* a finite value other than zero
Regular(a) == a.k = "num" /\ a.m # <<>>

\* s * M * 2^E for M of n bits, 1 <= n <= 53
FNormal(s, M, E, n) == F64(s, BShl(M, 53 - n), E - (53 - n))

\* s * q * 2^E for q of 53 bits, or q = 2^53
FCarried(s, q, E) ==
    IF q = BPow2(53) THEN F64(s, BPow2(52), E + 1) ELSE F64(s, q, E)

\* s * (q + rest) * 2^E to the nearest, ties to even; c is -1, 0 or 1 as
\* rest is below, equal to or above one half
FNearest(s, q, c, E) ==
    IF c > 0 \/ (c = 0 /\ BOdd(q)) THEN FCarried(s, BAdd(q, <<1>>), E)
    ELSE F64(s, q, E)

FRoundBits(s, M, E, n) ==
    IF n <= 53 THEN FNormal(s, M, E, n)
    ELSE FNearest(s, BShr(M, n - 53), BCmp(BLow(M, n - 53), BPow2(n - 54)), E + n - 53)

\* s * M * 2^E rounded to the nearest binary64, ties to even
FRound(s, M, E) == IF M = <<>> THEN FZero ELSE FRoundBits(s, M, E, BBitLen(M))

\* the integer n as a binary64, for |n| < 2^31
FromInt(n) ==
    IF n = 0 THEN FZero
    ELSE FNormal(IF n < 0 THEN -1 ELSE 1, BFromInt(Abs(n)), 0, BBitLen(BFromInt(Abs(n))))

FNeg(a) ==
    IF a.k = "nan" \/ (a.k = "num" /\ a.m = <<>>) THEN a ELSE [a EXCEPT !.s = -a.s]

FAbs(a) == [a EXCEPT !.s = 1]

\* (sa * A + sb * B) * 2^E; c is -1, 0 or 1 as A is below, equal to or above B
FSigned(sa, A, sb, B, E, c) ==
    FRound(IF sa = sb \/ c >= 0 THEN sa ELSE sb,
           IF sa = sb THEN BAdd(A, B) ELSE IF c >= 0 THEN BSub(A, B) ELSE BSub(B, A),
           E)

FAligned(sa, A, sb, B, E) == FSigned(sa, A, sb, B, E, BCmp(A, B))

\* a + b
FAdd(a, b) ==
    IF Regular(a) /\ Regular(b) /\ Abs(a.e - b.e) <= 64
    THEN FAligned(a.s, BShl(a.m, a.e - Min(a.e, b.e)),
                  b.s, BShl(b.m, b.e - Min(a.e, b.e)), Min(a.e, b.e))
    ELSE IF a.k = "nan" \/ b.k = "nan" THEN FNaN
    ELSE IF a.k = "inf" THEN (IF b.k = "inf" /\ b.s # a.s THEN FNaN ELSE a)
    ELSE IF b.k = "inf" THEN b
    ELSE IF a.m = <<>> THEN b
    ELSE IF b.m = <<>> THEN a
    ELSE IF a.e > b.e THEN a ELSE b

\* a - b
FSub(a, b) == FAdd(a, FNeg(b))

\* a * b; an infinity times zero is not-a-number
FMul(a, b) ==
    IF Regular(a) /\ Regular(b)
    THEN FRound(a.s * b.s, BMul(a.m, b.m), a.e + b.e)
    ELSE IF a.k = "nan" \/ b.k = "nan" THEN FNaN
    ELSE IF a.k = "inf" \/ b.k = "inf"
    THEN (IF (a.k = "num" /\ a.m = <<>>) \/ (b.k = "num" /\ b.m = <<>>)
          THEN FNaN ELSE FInf(a.s * b.s))
    ELSE FZero

\* s * (qr.q + qr.r / d) * 2^E: an exact quotient is rounded as it is, and
\* otherwise one more bit records that there is a remainder
FQuotient(s, qr, E) ==
    IF qr.r = <<>> THEN FRound(s, qr.q, E)
    ELSE FRound(s, BAdd(BShl(qr.q, 1), <<1>>), E - 1)

\* a / b; a division by zero gives an infinity, 0 / 0 not-a-number.  The
\* quotient is taken to 56 or 57 bits.
FDiv(a, b) ==
    IF Regular(a) /\ Regular(b)
    THEN FQuotient(a.s * b.s, BDivMod(BShl(a.m, 56), b.m), a.e - b.e - 56)
    ELSE IF a.k = "nan" \/ b.k = "nan" THEN FNaN
    ELSE IF a.k = "inf" THEN (IF b.k = "inf" THEN FNaN ELSE FInf(a.s * b.s))
    ELSE IF b.k = "inf" THEN FZero
    ELSE IF b.m = <<>> THEN (IF a.m = <<>> THEN FNaN ELSE FInf(a.s * b.s))
    ELSE FZero

\* the binary64 nearest to n / d, as a decimal literal is read
FromRat(n, d) == FDiv(FromInt(n), FromInt(d))

\* -1, 0 or 1 as the magnitude of a is below, equal to or above that of b
FCmpMag(a, b) ==
    IF a.k = "inf" \/ b.k = "inf"
    THEN (IF a.k = b.k THEN 0 ELSE IF a.k = "inf" THEN 1 ELSE -1)
    ELSE IF a.m = <<>> \/ b.m = <<>>
    THEN (IF a.m = b.m THEN 0 ELSE IF a.m = <<>> THEN -1 ELSE 1)
    ELSE IF a.e # b.e THEN (IF a.e > b.e THEN 1 ELSE -1)
    ELSE BCmp(a.m, b.m)

FSign(a) == IF a.k = "num" /\ a.m = <<>> THEN 0 ELSE a.s

\* a >= b; false when either is not-a-number
FGe(a, b) ==
    IF a.k = "nan" \/ b.k = "nan" THEN FALSE
    ELSE IF FSign(a) # FSign(b) THEN FSign(a) > FSign(b)
    ELSE IF FSign(a) = 0 THEN TRUE
    ELSE FSign(a) * FCmpMag(a, b) >= 0

\* a > b
FGt(a, b) == FGe(a, b) /\ ~FGe(b, a)

\* s * (q + rest) to the nearest integer, ties to even; c as in FNearest
FRintNearest(s, q, c) ==
    FRound(s, IF c > 0 \/ (c = 0 /\ BOdd(q)) THEN BAdd(q, <<1>>) ELSE q, 0)

\* rint: a rounded to an integer, ties to even, as a binary64; an integer
\* (every value of 2^52 or more is one), not-a-number and the infinities
\* are returned as they are
FRint(a) ==
    IF a.k # "num" \/ a.m = <<>> \/ a.e >= 0 THEN a
    ELSE IF -a.e > 54 THEN FZero
    ELSE FRintNearest(a.s, BShr(a.m, -a.e), BCmp(BLow(a.m, -a.e), BPow2(-a.e - 1)))

\* the literal 100
Hundred == FromInt(100)

\* rint(x * scale) / scale, each step rounded to binary64
RoundScaled(x, scale) == FDiv(FRint(FMul(x, scale)), scale)

\* round(x, ndigits) of a numpy float: rint(x * 10^ndigits) / 10^ndigits
round(x, ndigits) == RoundScaled(x, FromInt(10^ndigits))
\* the literals 1 and 0.5
FOne == FromInt(1)
FHalf == FromRat(1, 2)

\* ------------------------------------------------ program constants
\* datetime.today().date(), as a day number
TODAY == 100

\* the symbols of sp500.csv, in file order
get_sp500 ==
    <<"AAPL", "MSFT", "NVDA", "AMZN", "GOOGL", "META", "TSLA", "AVGO", "JPM", "LLY",
      "V", "XOM", "UNH", "MA", "COST", "HD", "PG", "WMT", "NFLX", "JNJ">>

\* the values the sidebar sliders are set to: 1.0 or 1.5, and 0.5 or 0.55
MinUnderpricingValues == {FromRat(10, 10), FromRat(15, 10)}
MinProbValues == {FromRat(50, 100), FromRat(55, 100)}

\* ------------------------------------------ provider responses (inputs)
\* A provider response is written with its prices in thousandths of a
\* dollar, its implied volatilities in hundredths and its closes in dollars;
\* Provider and Closes give the floats the program receives.

\* a row of an option chain
Contract(k, price, iv, oi) ==
    [strike |-> k, lastPrice |-> price, impliedVolatility |-> iv, openInterest |-> oi]

callsA == <<Contract(95000, 6100, 32, 2), Contract(100000, 3000, 28, 3)>>
callsC == <<Contract(101000, 2016, 30, 0), Contract(99000, 3500, 30, 0)>>
callsE == <<Contract(8000, 312, 40, 10), Contract(8500, 120, 38, 5)>>
callsT == <<Contract(1000, 40, 40, 10), Contract(1500, 12, 38, 5)>>
callsX == <<Contract(100000, 3000, 20, 9)>>
putsA == <<Contract(100000, 2000, 31, 4)>>
putsB == <<Contract(99000, 1500, 55, 20), Contract(101000, 2000, 45, 30)>>
putsD == <<Contract(100000, 2000, 30, 0)>>
putsE == <<Contract(8000, 200, 36, 7)>>
putsT == <<Contract(1000, 25, 36, 7)>>
putsX == <<Contract(100000, 2000, 5000, 0), Contract(105000, 6000, 4000, 1)>>

\* the binary64 of each decimal ns[i] / ds[i]
Floats(ns, ds) == [i \in 1..Len(ns) |-> FromRat(ns[i], ds[i])]

\* the binary64 of a price given in thousandths
Price(n) == Floats(<<n>>, <<1000>>)[1]

QuoteOf(c, v) ==
    [strike |-> v[1], lastPrice |-> v[2], impliedVolatility |-> v[3],
     openInterest |-> c.openInterest]

\* a row of an option chain as the program receives it
Quote(c) ==
    QuoteOf(c, Floats(<<c.strike, c.lastPrice, c.impliedVolatility>>,
                      <<1000, 1000, 100>>))

Quotes(side) == [i \in 1..Len(side) |-> Quote(side[i])] @@ <<>>

\* stock.calendar: the lookup raises, there is no calendar, or a date
CalendarResponses ==
    {[kind |-> "error", date |-> 0], [kind |-> "empty", date |-> 0]}
    \cup {[kind |-> "date", date |-> d] : d \in {TODAY - 1, TODAY}}

\* a chain with the last close s
Chain(s, e, c, p) ==
    [kind |-> "ok", spot |-> s, expirations |-> e, calls |-> c, puts |-> p]

Chains ==
    {Chain(100000, <<>>, <<>>, <<>>)}
    \cup {Chain(100000, <<TODAY + 2, TODAY + 9>>, c, p) :
            c \in {<<>>, callsA, callsC}, p \in {<<>>, putsA, putsB, putsD}}
    \cup {Chain(1015, <<TODAY + 1>>, callsT, putsT)}

Provider(r) ==
    [kind |-> "ok", spot |-> Price(r.spot), expirations |-> r.expirations,
     calls |-> Quotes(r.calls), puts |-> Quotes(r.puts)]

\* stock.history(period="1d"), stock.options and stock.option_chain: a call
\* raises, no expiration is listed, or a chain (either side may be empty)
OptionResponses ==
    {[kind |-> "error", spot |-> FZero, expirations |-> <<>>, calls |-> <<>>, puts |-> <<>>]}
    \cup {Provider(r) : r \in Chains}

\* the daily closes, given in dollars
Closes(c) == [kind |-> "ok", closes |-> [i \in 1..Len(c) |-> FromInt(c[i])] @@ <<>>]

\* stock.history(period="2y"): the call raises, or the daily closes
HistoryResponses ==
    {[kind |-> "error", closes |-> <<>>]}
    \cup {Closes(c) :
            c \in {<<100>>, <<1000000, 1050001>>, <<1000000, 959839>>, <<0, 100>>,
                   <<100, 81, 72, 53, 69, 67, 56, 41, 48>>}}

\* ---------------------------------------------------- core functions
\* "except: return True"
reports_today_exceptTrue(cal) ==
    IF cal.kind = "error" THEN TRUE
    ELSE IF cal.kind = "empty" THEN FALSE
    ELSE cal.date = TODAY

reports_today(cal) ==
    IF cal.kind = "error" THEN FALSE
    ELSE IF cal.kind = "empty" THEN FALSE
    ELSE cal.date = TODAY

None == [some |-> FALSE, spot |-> FZero, expiry |-> 0, calls |-> <<>>, puts |-> <<>>]

get_options_data(opt) ==
    IF opt.kind = "error" THEN None
    ELSE IF opt.expirations = <<>> THEN None
    ELSE [some |-> TRUE, spot |-> opt.spot, expiry |-> opt.expirations[1],
          calls |-> opt.calls, puts |-> opt.puts]

\* the column abs(side["strike"] - spot)
Dist(side, spot) == [i \in 1..Len(side) |-> FAbs(FSub(side[i].strike, spot))] @@ <<>>

\* idxmin: the first row holding the least value of the column
IdxMin(col) ==
    CHOOSE i \in 1..Len(col) :
        /\ \A j \in 1..Len(col) : FGe(col[j], col[i])
        /\ \A j \in 1..(i - 1) : FGt(col[j], col[i])

\* idxmin of an empty column raises; otherwise the straddle over spot
implied_move(spot, calls, puts) ==
    IF calls = <<>> \/ puts = <<>> THEN [raised |-> TRUE, value |-> FNaN]
    ELSE [raised |-> FALSE,
          value |-> FDiv(FAdd(calls[IdxMin(Dist(calls, spot))].lastPrice,
                              puts[IdxMin(Dist(puts, spot))].lastPrice), spot)]

\* numpy's add.reduce over a contiguous float column (pairwise_sum): fewer
\* than 8 entries are added from left to right, starting from 0; up to
\* PW_BLOCKSIZE entries are added in 8 lanes, entry i to lane i mod 8, the
\* lanes are added as a tree and the entries after the last full group of 8
\* are added to that; a longer column is cut in two near its middle, at a
\* multiple of 8, and the sums of the two parts are added.
PW_BLOCKSIZE == 128

\* res + col[i] + ... + col[last], from left to right
RECURSIVE Serial(_, _, _, _)
Serial(col, res, i, last) ==
    IF i > last THEN res ELSE Serial(col, FAdd(res, col[i]), i + 1, last)

\* col[i] + col[i + 8] + ... + col[i + 8 * k]
RECURSIVE Lane(_, _, _)
Lane(col, i, k) ==
    IF k = 0 THEN col[i] ELSE FAdd(Lane(col, i, k - 1), col[i + 8 * k])

Halve(r) == [j \in 1..(Len(r) \div 2) |-> FAdd(r[2 * j - 1], r[2 * j])] @@ <<>>

\* ((r[1] + r[2]) + (r[3] + r[4])) + ((r[5] + r[6]) + (r[7] + r[8]))
RECURSIVE Tree(_)
Tree(r) == IF Len(r) = 1 THEN r[1] ELSE Tree(Halve(r))

Unrolled(col, lo, n) ==
    Serial(col, Tree([j \in 1..8 |-> Lane(col, lo + j - 1, (n \div 8) - 1)] @@ <<>>),
           lo + n - (n % 8), lo + n - 1)

\* the sum of the n entries of col from col[lo] on
RECURSIVE pairwise_sum(_, _, _)
Halves(col, lo, n, n2) ==
    FAdd(pairwise_sum(col, lo, n2), pairwise_sum(col, lo + n2, n - n2))

pairwise_sum(col, lo, n) ==
    IF n < 8 THEN Serial(col, FZero, lo, lo + n - 1)
    ELSE IF n <= PW_BLOCKSIZE THEN Unrolled(col, lo, n)
    ELSE Halves(col, lo, n, (n \div 2) - ((n \div 2) % 8))

\* Series.sum as mean takes it: not-a-number entries count as 0
Sum(col) ==
    pairwise_sum([i \in 1..Len(col) |-> IF col[i].k = "nan" THEN FZero ELSE col[i]] @@ <<>>,
                 1, Len(col))

\* the number of entries that are numbers
Count(col) == Cardinality({i \in 1..Len(col) : col[i].k # "nan"})

\* Series.mean: the sum over the count, entries that are not-a-number left
\* out; not-a-number when nothing is left
Mean(col) ==
    IF Count(col) = 0 THEN FNaN ELSE FDiv(Sum(col), FromInt(Count(col)))

\* Close.pct_change().abs(): not-a-number for the first close, then
\* |close / previous close - 1|
AbsReturns(closes) ==
    [i \in 1..Len(closes) |->
        IF i = 1 THEN FNaN
        ELSE FAbs(FSub(FDiv(closes[i], closes[i - 1]), FOne))] @@ <<>>

\* mean absolute daily return; not-a-number when the fetch raises or when
\* there is no return to average
hist_move(hist) ==
    IF hist.kind = "error" THEN FNaN ELSE Mean(AbsReturns(hist.closes))

\* the column of implied volatilities
IVs(side) == [i \in 1..Len(side) |-> side[i].impliedVolatility]

RECURSIVE SumOI(_, _)
SumOI(side, n) == IF n = 0 THEN 0 ELSE SumOI(side, n - 1) + side[n].openInterest

skew_proxy(calls, puts) == FSub(Mean(IVs(puts)), Mean(IVs(calls)))

\* the divisor without its "+ 1"
oi_imbalance_noguard(calls, puts) ==
    LET call_oi == SumOI(calls, Len(calls))
        put_oi == SumOI(puts, Len(puts))
    IN  FDiv(FromInt(call_oi - put_oi), FromInt(call_oi + put_oi))

oi_imbalance(calls, puts) ==
    LET call_oi == SumOI(calls, Len(calls))
        put_oi == SumOI(puts, Len(puts))
    IN  FDiv(FromInt(call_oi - put_oi), FromInt(call_oi + put_oi + 1))

\* tanh as the C library gives it, tabulated at the arguments that occur
TanhTable ==
    F64(-1, <<0, 0, 0, 128>>, -52) :> F64(-1, <<29588, 27177, 31722, 194>>, -53) @@
    F64(-1, <<24415, 16062, 32125, 250>>, -53) :> F64(-1, <<11355, 10355, 27142, 192>>, -53) @@
    F64(-1, <<0, 0, 0, 224>>, -53) :> F64(-1, <<8214, 5912, 6548, 180>>, -53) @@
    F64(-1, <<14895, 17873, 14894, 209>>, -53) :> F64(-1, <<15518, 32229, 18488, 172>>, -53) @@
    F64(-1, <<23406, 23405, 23405, 205>>, -53) :> F64(-1, <<21276, 12284, 16493, 170>>, -53) @@
    F64(-1, <<6554, 13107, 26214, 204>>, -53) :> F64(-1, <<2626, 5353, 32552, 169>>, -53) @@
    F64(-1, <<6665, 21660, 29435, 177>>, -53) :> F64(-1, <<13175, 139, 29143, 153>>, -53) @@
    F64(-1, <<24030, 15291, 30583, 174>>, -53) :> F64(-1, <<21078, 24294, 32198, 151>>, -53) @@
    F64(-1, <<5041, 25206, 27726, 137>>, -53) :> F64(-1, <<1896, 24335, 26644, 251>>, -54) @@
    F64(-1, <<24824, 7943, 24824, 135>>, -53) :> F64(-1, <<12414, 2211, 20765, 248>>, -54) @@
    F64(-1, <<0, 0, 0, 128>>, -53) :> F64(-1, <<2803, 11949, 19791, 236>>, -54) @@
    F64(-1, <<21845, 10922, 21845, 170>>, -55) :> F64(-1, <<11797, 24770, 3400, 169>>, -55) @@
    F64(-1, <<15124, 10082, 17644, 157>>, -55) :> F64(-1, <<30632, 21591, 10066, 156>>, -55) @@
    F64(-1, <<22284, 24903, 10485, 184>>, -56) :> F64(-1, <<27385, 31769, 26998, 183>>, -56) @@
    F64(-1, <<5244, 3932, 27525, 163>>, -56) :> F64(-1, <<23744, 3880, 16101, 163>>, -56) @@
    F64(-1, <<7872, 22282, 24903, 245>>, -58) :> F64(-1, <<120, 20654, 22488, 245>>, -58) @@
    F64(-1, <<0, 0, 0, 128>>, -106) :> F64(-1, <<0, 0, 0, 128>>, -106) @@
    FZero :> FZero @@
    F64(1, <<5216, 3932, 27525, 163>>, -59) :> F64(1, <<22851, 5576, 27346, 163>>, -59) @@
    F64(1, <<5248, 3932, 27525, 163>>, -59) :> F64(1, <<22883, 5576, 27346, 163>>, -59) @@
    F64(1, <<7856, 22282, 24903, 245>>, -57) :> F64(1, <<14045, 29459, 15253, 245>>, -57) @@
    F64(1, <<7864, 22282, 24903, 245>>, -57) :> F64(1, <<14054, 29459, 15253, 245>>, -57) @@
    F64(1, <<6552, 13107, 26214, 204>>, -56) :> F64(1, <<16696, 29374, 3933, 204>>, -56) @@
    F64(1, <<6554, 13107, 26214, 204>>, -56) :> F64(1, <<16698, 29374, 3933, 204>>, -56) @@
    F64(1, <<23592, 1310, 9175, 225>>, -56) :> F64(1, <<7591, 15652, 12312, 224>>, -56) @@
    F64(1, <<18204, 14563, 18204, 227>>, -56) :> F64(1, <<27238, 28572, 20437, 226>>, -56) @@
    F64(1, <<7710, 15420, 30840, 240>>, -56) :> F64(1, <<25639, 26758, 27383, 239>>, -56) @@
    F64(1, <<0, 0, 0, 128>>, -55) :> F64(1, <<14388, 22409, 22116, 254>>, -56) @@
    F64(1, <<5242, 3932, 27525, 163>>, -55) :> F64(1, <<12149, 14724, 14944, 162>>, -55) @@
    F64(1, <<6552, 13107, 26214, 204>>, -55) :> F64(1, <<9615, 24935, 3680, 202>>, -55) @@
    F64(1, <<6554, 13107, 26214, 204>>, -55) :> F64(1, <<9616, 24935, 3680, 202>>, -55) @@
    F64(1, <<13107, 26214, 19660, 153>>, -54) :> F64(1, <<5370, 20402, 4982, 149>>, -54) @@
    F64(1, <<8548, 12822, 2849, 178>>, -54) :> F64(1, <<30425, 3695, 7748, 171>>, -54) @@
    F64(1, <<28087, 28086, 28086, 182>>, -54) :> F64(1, <<2257, 15606, 15066, 175>>, -54) @@
    F64(1, <<5958, 26810, 5957, 186>>, -54) :> F64(1, <<10965, 12077, 12696, 178>>, -54) @@
    F64(1, <<2521, 12603, 30247, 196>>, -54) :> F64(1, <<5745, 3336, 24739, 187>>, -54) @@
    F64(1, <<6554, 13107, 26214, 140>>, -53) :> F64(1, <<4611, 27779, 4363, 128>>, -53) @@
    F64(1, <<9362, 9362, 9362, 146>>, -53) :> F64(1, <<5279, 12699, 6565, 132>>, -53) @@
    F64(1, <<10348, 17246, 6898, 148>>, -53) :> F64(1, <<26273, 31572, 19869, 133>>, -53) @@
    F64(1, <<21845, 10922, 21845, 170>>, -53) :> F64(1, <<29265, 22203, 6305, 149>>, -53) @@
    F64(1, <<5958, 26810, 5957, 186>>, -53) :> F64(1, <<23844, 21340, 2518, 159>>, -53) @@
    F64(1, <<6554, 13107, 26214, 204>>, -53) :> F64(1, <<2626, 5353, 32552, 169>>, -53) @@
    F64(1, <<23130, 13492, 26985, 210>>, -53) :> F64(1, <<24429, 20315, 10108, 173>>, -53) @@
    F64(1, <<10923, 21845, 10922, 213>>, -53) :> F64(1, <<17514, 23320, 21594, 174>>, -53) @@
    F64(1, <<0, 0, 0, 224>>, -53) :> F64(1, <<8214, 5912, 6548, 180>>, -53) @@
    F64(1, <<19661, 6553, 13107, 230>>, -53) :> F64(1, <<24669, 1452, 12198, 183>>, -53) @@
    F64(1, <<0, 0, 0, 240>>, -53) :> F64(1, <<1405, 7272, 30222, 187>>, -53) @@
    F64(1, <<0, 0, 0, 128>>, -52) :> F64(1, <<29588, 27177, 31722, 194>>, -53) @@
    F64(1, <<18350, 30146, 14417, 178>>, -47) :> F64(1, <<0, 0, 0, 128>>, -52) @@
    F64(1, <<6554, 13107, 26214, 178>>, -47) :> F64(1, <<0, 0, 0, 128>>, -52) @@
    F64(1, <<26214, 19660, 6553, 179>>, -47) :> F64(1, <<0, 0, 0, 128>>, -52)

tanh(x) == IF x.k = "nan" THEN FNaN ELSE TanhTable[x]

\* the literals 1e-6, 0.3 and 0.2
Epsilon == FromRat(1, 10^6)
SkewWeight == FromRat(3, 10)
ImbalanceWeight == FromRat(2, 10)

\* 0.3 * tanh(skew) + 0.2 * tanh(oi)
Tilt(skew, oi) ==
    FAdd(FMul(SkewWeight, tanh(skew)), FMul(ImbalanceWeight, tanh(oi)))

\* cascade = 0.5 + tilt
score_model_sameSign(im, hm, skew, oi) ==
    LET tilt == Tilt(skew, oi)
    IN  [underpricing |-> FDiv(hm, FAdd(im, Epsilon)),
         squeeze |-> FAdd(FHalf, tilt),
         cascade |-> FAdd(FHalf, tilt)]

score_model(im, hm, skew, oi) ==
    LET tilt == Tilt(skew, oi)
    IN  [underpricing |-> FDiv(hm, FAdd(im, Epsilon)),
         squeeze |-> FAdd(FHalf, tilt),
         cascade |-> FSub(FHalf, tilt)]

\* ------------------------------------------------------- scan engine
VARIABLES
    min_underpricing,   \* slider: minimum underpricing ratio
    min_prob,           \* slider: minimum squeeze / cascade probability
    max_symbols,        \* slider: max symbols to scan
    pc,                 \* where the script is
    idx,                \* position of the for loop in UNIVERSE
    results,            \* the list of accepted rows
    log,                \* per ticker taken by the loop: what was fetched and called
    slept,              \* number of time.sleep calls made
    df,                 \* the table handed to st.dataframe
    shown,              \* what the page shows after the scan
    mIn, mOut           \* argument and value of a metric function evaluated alone

vars == <<min_underpricing, min_prob, max_symbols, pc, idx, results, log, slept,
          df, shown, mIn, mOut>>

scanVars == <<min_underpricing, min_prob, max_symbols, pc, idx, results, log, slept,
              df, shown>>

\* get_sp500()[:max_symbols]
UNIVERSE == SubSeq(get_sp500, 1, Min(max_symbols, Len(get_sp500)))

Uncalled == [kind |-> "uncalled", spot |-> FZero, expirations |-> <<>>,
             calls |-> <<>>, puts |-> <<>>]
UncalledHist == [kind |-> "uncalled", closes |-> <<>>]
NoScore == [underpricing |-> FNaN, squeeze |-> FZero, cascade |-> FZero]

\* underpricing >= min_underpricing and (squeeze >= min_prob or cascade >= min_prob);
\* a comparison with not-a-number is false
\* ">" in place of ">="
Qualifies_strict(score, mu, mp) ==
    /\ FGt(score.underpricing, mu)
    /\ (FGt(score.squeeze, mp) \/ FGt(score.cascade, mp))

\* "not underpricing < min_underpricing" in place of ">="
Qualifies_notBelow(score, mu, mp) ==
    /\ ~FGt(mu, score.underpricing)
    /\ (FGe(score.squeeze, mp) \/ FGe(score.cascade, mp))

Qualifies(score, mu, mp) ==
    /\ FGe(score.underpricing, mu)
    /\ (FGe(score.squeeze, mp) \/ FGe(score.cascade, mp))

\* the dict appended to results: every number rounded to two decimals
ResultRow(ticker, spot, im, hm, score) ==
    [Ticker |-> ticker,
     Spot |-> round(spot, 2),
     ImpliedMovePct |-> round(FMul(im, Hundred), 2),
     HistAvgMovePct |-> round(FMul(hm, Hundred), 2),
     Underpricing |-> round(score.underpricing, 2),
     SqueezeProb |-> round(score.squeeze, 2),
     CascadeProb |-> round(score.cascade, 2)]

\* lines 146-150 once implied_move has returned im: the other metrics and
\* the scores
WithMetrics(spot, im, hm, skew, oi) ==
    [some |-> TRUE, raised |-> FALSE, spot |-> spot, im |-> im, hm |-> hm,
     score |-> score_model(im, hm, skew, oi)]

\* lines 144-145: the unpacked data and implied_move on it
WithImpliedMove(data, hist, im) ==
    IF im.raised
    THEN [some |-> TRUE, raised |-> TRUE, spot |-> data.spot, im |-> FNaN, hm |-> FNaN,
          score |-> NoScore]
    ELSE WithMetrics(data.spot, im.value, hist_move(hist),
                     skew_proxy(data.calls, data.puts),
                     oi_imbalance(data.calls, data.puts))

\* lines 142-150: what the loop body computes from the provider's responses
\* for a ticker that reports today
WithData(data, hist) ==
    IF ~data.some
    THEN [some |-> FALSE, raised |-> FALSE, spot |-> FZero, im |-> FNaN, hm |-> FNaN,
          score |-> NoScore]
    ELSE WithImpliedMove(data, hist, implied_move(data.spot, data.calls, data.puts))

\* lines 153-161: the row the loop would append for the ticker
WithRow(ticker, b) ==
    [some |-> b.some, raised |-> b.raised, hm |-> b.hm, score |-> b.score,
     row |-> IF b.some /\ ~b.raised
             THEN ResultRow(ticker, b.spot, b.im, b.hm, b.score)
             ELSE <<>>]

\* What the loop body computes depends only on the provider's responses, so
\* it is evaluated once per pair of responses, and once more per ticker for
\* the row, and the loop looks the values up.
BodyOf ==
    [x \in OptionResponses \X HistoryResponses |->
        WithData(get_options_data(x[1]), x[2])] @@ <<>>

Tickers == {get_sp500[i] : i \in 1..Min(MaxSymbols, Len(get_sp500))}

OutcomeOf ==
    [x \in Tickers \X DOMAIN BodyOf |-> WithRow(x[1], BodyOf[x[2]])] @@ <<>>

Entry(cal, opt, hist, invoked, scored, hm, score) ==
    [cal |-> cal, opt |-> opt, hist |-> hist, invoked |-> invoked,
     scored |-> scored, hm |-> hm, score |-> score, delays |-> slept]

Init ==
    /\ min_underpricing \in MinUnderpricingValues
    /\ min_prob \in MinProbValues
    /\ max_symbols \in 1..MaxSymbols
    /\ pc = "IDLE"
    /\ idx = 0
    /\ results = <<>>
    /\ log = <<>>
    /\ slept = 0
    /\ df = <<>>
    /\ shown = "nothing"
    /\ mIn = [fn |-> "none"]
    /\ mOut = FNaN

\* st.button("Run Earnings Scan") pressed: results = [] and the loop starts
RunScan ==
    /\ pc = "IDLE"
    /\ results' = <<>>
    /\ idx' = 1
    /\ pc' = IF UNIVERSE = <<>> THEN "RANK" ELSE "SCANNING"
    /\ UNCHANGED <<min_underpricing, min_prob, max_symbols, log, slept, df, shown,
                   mIn, mOut>>

\* the body of the for loop for UNIVERSE[idx], up to the sleep.  The price
\* history is fetched, and its response kept, only when implied_move has
\* returned.
ScanTicker ==
    /\ pc = "SCANNING"
    /\ idx <= Len(UNIVERSE)
    /\ \E cal \in CalendarResponses :
        IF ~reports_today(cal)
        THEN /\ log' = Append(log, Entry(cal, Uncalled, UncalledHist, {}, FALSE,
                                         FNaN, NoScore))
             /\ pc' = "SLEEP"
             /\ UNCHANGED results
        ELSE \E opt \in OptionResponses, hist \in HistoryResponses :
          \E out \in {OutcomeOf[<<UNIVERSE[idx], <<opt, hist>>>>]} :
             IF ~out.some
             THEN /\ log' = Append(log, Entry(cal, opt, UncalledHist, {}, FALSE,
                                              FNaN, NoScore))
                  /\ pc' = "SLEEP"
                  /\ UNCHANGED results
             ELSE IF out.raised
             THEN /\ log' = Append(log, Entry(cal, opt, UncalledHist,
                                              {"implied_move"}, FALSE, FNaN, NoScore))
                  /\ pc' = "FATAL"
                  /\ UNCHANGED results
             ELSE /\ log' = Append(log, Entry(cal, opt, hist,
                                 {"implied_move", "hist_move", "skew_proxy",
                                  "oi_imbalance", "score_model"}, TRUE,
                                 out.hm, out.score))
                  /\ results' =
                       IF Qualifies(out.score, min_underpricing, min_prob)
                       THEN Append(results, out.row)
                       ELSE results
                  /\ pc' = "SLEEP"
    /\ UNCHANGED <<min_underpricing, min_prob, max_symbols, idx, slept, df, shown,
                   mIn, mOut>>

\* time.sleep inside the "if reports_today" block instead of the loop body
Sleep_onlyWhenReporting ==
    /\ pc = "SLEEP"
    /\ slept' = IF reports_today(log[idx].cal) THEN slept + 1 ELSE slept
    /\ idx' = idx + 1
    /\ pc' = IF idx = Len(UNIVERSE) THEN "RANK" ELSE "SCANNING"
    /\ UNCHANGED <<min_underpricing, min_prob, max_symbols, results, log, df, shown,
                   mIn, mOut>>

\* time.sleep(0.3), then the loop takes the next ticker or ends
Sleep ==
    /\ pc = "SLEEP"
    /\ slept' = slept + 1
    /\ idx' = idx + 1
    /\ pc' = IF idx = Len(UNIVERSE) THEN "RANK" ELSE "SCANNING"
    /\ UNCHANGED <<min_underpricing, min_prob, max_symbols, results, log, df, shown,
                   mIn, mOut>>

\* df.sort_values("Underpricing", ascending=False), with the default
\* kind="quicksort": pandas reverses the column, has numpy sort it ascending
\* and reverses the outcome.  numpy sorts a column by insertion, which leaves
\* equal keys in place, unless its last index exceeds its first by more than
\* SMALL_QUICKSORT; then the column is partitioned first, and which of two
\* rows with equal keys comes first is not determined by the script.
SMALL_QUICKSORT == 16

\* the place of rows[i] in the descending order that keeps tied rows in
\* scan order
Rank(rows, i) ==
    Cardinality({j \in 1..Len(rows) :
                    FGt(rows[j].Underpricing, rows[i].Underpricing)})
    + Cardinality({j \in 1..i : rows[j].Underpricing = rows[i].Underpricing})

Ranked(rows, rank) ==
    [r \in 1..Len(rows) |-> rows[CHOOSE i \in 1..Len(rows) : rank[i] = r]] @@ <<>>

StableDescending(rows) == Ranked(rows, [i \in 1..Len(rows) |-> Rank(rows, i)] @@ <<>>)

\* the places of a descending table whose key occurs more than once
Tied(s) ==
    {r \in 1..Len(s) :
        \E q \in 1..Len(s) : q # r /\ s[q].Underpricing = s[r].Underpricing}

\* the ways of reordering the places T among rows of equal key
TieOrders(s, T) ==
    {q \in [T -> T] :
        /\ \A r \in T : s[q[r]].Underpricing = s[r].Underpricing
        /\ \A a, b \in T : q[a] = q[b] => a = b}

Rearranged(s, T) ==
    {[r \in 1..Len(s) |-> IF r \in T THEN s[q[r]] ELSE s[r]] : q \in TieOrders(s, T)}

\* every descending order of the rows of the descending table s
DescendingOrders(s) == Rearranged(s, Tied(s))

sort_values(rows) ==
    IF Len(rows) - 1 <= SMALL_QUICKSORT
    THEN {StableDescending(rows)}
    ELSE DescendingOrders(StableDescending(rows))

\* after the loop: the ranked table, or the warning when results is empty
Present ==
    /\ pc = "RANK"
    /\ IF results # <<>>
       THEN /\ df' \in sort_values(results)
            /\ shown' = "table"
       ELSE /\ df' = <<>>
            /\ shown' = "warning"
    /\ pc' = "DONE"
    /\ UNCHANGED <<min_underpricing, min_prob, max_symbols, idx, results, log, slept,
                   mIn, mOut>>

Next == RunScan \/ ScanTicker \/ Sleep \/ Present

Spec == Init /\ [][Next]_vars

\* ------------------------------------- metric functions, evaluated alone
\* every list of at most two contracts whose open interest is in 0..MaxOI
OISides ==
    {Quotes(side) : side \in
        {<<>>}
        \cup {<<Contract(100000, 3000, 30, a)>> : a \in 0..MaxOI}
        \cup {<<Contract(100000, 3000, 30, a), Contract(105000, 1000, 30, b)>> :
                a \in 0..MaxOI, b \in 0..MaxOI}}

MetricInit ==
    /\ min_underpricing = FOne
    /\ min_prob = FHalf
    /\ max_symbols = 1
    /\ pc = "IDLE"
    /\ idx = 0
    /\ results = <<>>
    /\ log = <<>>
    /\ slept = 0
    /\ df = <<>>
    /\ shown = "nothing"
    /\ mIn = [fn |-> "none"]
    /\ mOut = FNaN

\* oi_imbalance on one pair of sides
EvalImbalance ==
    /\ mIn.fn = "none"
    /\ \E c \in OISides, p \in OISides :
         /\ mIn' = [fn |-> "oi_imbalance", calls |-> c, puts |-> p]
         /\ mOut' = oi_imbalance(c, p)
    /\ UNCHANGED scanVars

\* score_model on the metric bundle of one chain and one price history
EvalScore ==
    /\ mIn.fn = "none"
    /\ \E c \in {Quotes(side) : side \in {callsA, callsC, callsE, callsX}},
          p \in {Quotes(side) : side \in {putsA, putsB, putsD, putsE, putsX}},
          spot \in {Price(s) : s \in {8192, 100000}},
          hist \in HistoryResponses :
       \E im \in {implied_move(spot, c, p).value},
          hm \in {hist_move(hist)},
          skew \in {skew_proxy(c, p)},
          oi \in {oi_imbalance(c, p)} :
         /\ mIn' = [fn |-> "score_model", im |-> im, hm |-> hm,
                    skew |-> skew, oi |-> oi]
         /\ mOut' = score_model(im, hm, skew, oi)
    /\ UNCHANGED scanVars

MetricNext == EvalImbalance \/ EvalScore

MetricSpec == MetricInit /\ [][MetricNext]_vars

\* ----------------------------------------- sort_values, evaluated alone
\* the number of rows of a long result set
SortRows == 18

\* Underpricing values rising by 0.01 from 2.00, and the historical move
\* that gives each of them for an implied move of 5 percent
SortKey ==
    [r \in 1..SortRows |->
        [Underpricing |-> FromRat(199 + r, 100),
         HistAvgMovePct |-> FromRat(5 * (199 + r), 100)]] @@ <<>>

SortRow(r, key) ==
    [Ticker |-> get_sp500[r],
     Spot |-> Hundred,
     ImpliedMovePct |-> FromInt(5),
     HistAvgMovePct |-> key.HistAvgMovePct,
     Underpricing |-> key.Underpricing,
     SqueezeProb |-> FHalf,
     CascadeProb |-> FHalf]

\* the result set of n accepted tickers whose Underpricing rises along the
\* scan, except that the j-th has the Underpricing of the i-th
SortTable(n, i, j) ==
    [r \in 1..n |-> SortRow(r, SortKey[IF r = j THEN i ELSE r])] @@ <<>>

SortTables ==
    {SortTable(x[1], x[2], x[3]) :
        x \in {y \in {2, SMALL_QUICKSORT, SortRows} \X (1..SortRows) \X (1..SortRows) :
                 y[2] < y[3] /\ y[3] <= y[1]}}

\* sort_values on one result set
EvalSort ==
    /\ mIn.fn = "none"
    /\ \E rows \in SortTables :
         /\ mIn' = [fn |-> "sort_values", rows |-> rows]
         /\ mOut' \in sort_values(rows)
    /\ UNCHANGED scanVars

SortNext == EvalSort

SortSpec == MetricInit /\ [][SortNext]_vars
\* ------------------------------------------------------------ claims
HasRow(t) == \E k \in 1..Len(results) : results[k].Ticker = t

InTable(t) == \E k \in 1..Len(df) : df[k].Ticker = t

LookupNotToday(cal) ==
    cal.kind = "error" \/ cal.kind = "empty" \/ cal.date # TODAY

\* C1: a ticker whose earnings-date lookup raised, found no calendar or gave
\* a date other than TODAY has no row in the result set nor in the table,
\* at any point of the scan.
C1_NotReportingNeverIncluded ==
    \A i \in 1..Len(log) :
        LookupNotToday(log[i].cal) => ~HasRow(UNIVERSE[i]) /\ ~InTable(UNIVERSE[i])

\* C1 witness: a finished scan in which the lookup raised for one ticker and
\* another ticker was ranked.
C1_Witness ==
    /\ pc = "DONE"
    /\ shown = "table"
    /\ \E i \in 1..Len(log) : log[i].cal.kind = "error"

\* C2: a scored ticker has a row exactly when underpricing >= min_underpricing
\* and (squeeze >= min_prob or cascade >= min_prob) for the scores score_model
\* returned for it; a ticker that was not scored has no row.
C2_AcceptedIffThresholds ==
    \A i \in 1..Len(log) :
        IF log[i].scored
        THEN HasRow(UNIVERSE[i]) <=>
               /\ FGe(log[i].score.underpricing, min_underpricing)
               /\ \/ FGe(log[i].score.squeeze, min_prob)
                  \/ FGe(log[i].score.cascade, min_prob)
        ELSE ~HasRow(UNIVERSE[i])

\* C2 witness: the first ticker is accepted with its underpricing equal to
\* min_underpricing and both probabilities equal to min_prob; the second is
\* rejected on its underpricing alone, which is below min_underpricing by
\* less than a rounding to two decimals shows.
C2_Witness ==
    /\ Len(log) = 2
    /\ log[1].scored /\ log[2].scored
    /\ HasRow(UNIVERSE[1])
    /\ log[1].score.underpricing = min_underpricing
    /\ log[1].score.squeeze = min_prob
    /\ log[1].score.cascade = min_prob
    /\ ~HasRow(UNIVERSE[2])
    /\ FGt(min_underpricing, log[2].score.underpricing)
    /\ round(log[2].score.underpricing, 2) = min_underpricing
    /\ FGe(log[2].score.squeeze, min_prob)

\* the place of a row in a table
Place(out, row) == CHOOSE k \in 1..Len(out) : out[k] = row

\* out holds the rows of rows, descending by Underpricing, and rows of equal
\* Underpricing in the order they have in rows
IsStableDescending(rows, out) ==
    /\ Len(out) = Len(rows)
    /\ \A i \in 1..Len(rows) : \E k \in 1..Len(out) : out[k] = rows[i]
    /\ \A k \in 1..(Len(out) - 1) : FGe(out[k].Underpricing, out[k + 1].Underpricing)
    /\ \A i, j \in 1..Len(rows) :
         (i < j /\ rows[i].Underpricing = rows[j].Underpricing)
            => Place(out, rows[i]) < Place(out, rows[j])

\* C3: the table handed to presentation is the result set in stable
\* descending order of Underpricing: every row's Underpricing is at least
\* that of the row after it, and rows with equal Underpricing keep the order
\* in which the scan appended them.  Stated of the table of a scan and of
\* sort_values applied to a result set.
C3_TableStableDescending ==
    /\ shown = "table" => IsStableDescending(results, df)
    /\ mIn.fn = "sort_values" => IsStableDescending(mIn.rows, mOut)

\* C4: no scan ends in a fatal error: the script is never stopped by an
\* uncaught exception.
C4_NoFatalError == pc # "FATAL"

EmptyChain(opt) ==
    opt.kind = "ok" /\ (opt.expirations = <<>> \/ opt.calls = <<>> \/ opt.puts = <<>>)

\* C5: for a ticker whose option chain is empty (no expiration, or an empty
\* call or put side) none of implied_move, hist_move, skew_proxy,
\* oi_imbalance and score_model is invoked, and the ticker has no row.
C5_EmptyChainExcludedBeforeScoring ==
    \A i \in 1..Len(log) :
        EmptyChain(log[i].opt) => log[i].invoked = {} /\ ~HasRow(UNIVERSE[i])

\* C6: the squeeze and cascade probabilities score_model returns add up to
\* exactly 1 in binary64 arithmetic, and both lie within [0, 1].
C6_ProbabilitiesSumToOne ==
    mIn.fn = "score_model" =>
        /\ FAdd(mOut.squeeze, mOut.cascade) = FOne
        /\ FGe(mOut.squeeze, FZero) /\ FGe(FOne, mOut.squeeze)
        /\ FGe(mOut.cascade, FZero) /\ FGe(FOne, mOut.cascade)

\* C6 witness: a bundle for which 0.5 - tilt is rounded, so that squeeze and
\* cascade do not add up to 1 as real numbers (1 - squeeze is exact for a
\* squeeze in [0.5, 1], and it is not cascade), and only the rounding of
\* their sum gives 1.
C6_Witness ==
    /\ mIn.fn = "score_model"
    /\ FGe(mOut.squeeze, FHalf) /\ FGe(FOne, mOut.squeeze)
    /\ FSub(FOne, mOut.squeeze) # mOut.cascade
    /\ FAdd(mOut.squeeze, mOut.cascade) = FOne

\* C7: for non-negative open-interest sums c and p, oi_imbalance returns
\* (c - p) / (c + p + 1): the divisor is positive, the value is the binary64
\* nearest to that quotient, and it is strictly between -1 and 1.
C7_ImbalanceInOpenInterval ==
    mIn.fn = "oi_imbalance" =>
        LET c == SumOI(mIn.calls, Len(mIn.calls))
            p == SumOI(mIn.puts, Len(mIn.puts))
        IN  /\ c + p + 1 > 0
            /\ mOut = FromRat(c - p, c + p + 1)
            /\ FGt(mOut, FromInt(-1))
            /\ FGt(FOne, mOut)

\* C7 witness: both sides have zero open interest and the value is 0.
C7_Witness ==
    /\ mIn.fn = "oi_imbalance"
    /\ Len(mIn.calls) = 2
    /\ SumOI(mIn.calls, Len(mIn.calls)) = 0
    /\ SumOI(mIn.puts, Len(mIn.puts)) = 0
    /\ mOut = FZero

\* C8: the scan always ends in DONE: whenever the script can take no further
\* step, every ticker has been processed and the result handed over.
C8_ScanEndsInDone == pc = "DONE" \/ ENABLED Next

\* C9: every ticker whose loop body completed (skipped, rejected or accepted)
\* is followed by exactly one delay, and the provider calls for the i-th
\* ticker are made after exactly i - 1 delays.
C9_OneDelayPerTicker ==
    /\ \A i \in 1..Len(log) : log[i].delays = i - 1
    /\ pc = "SCANNING" => slept = idx - 1 /\ Len(log) = idx - 1
    /\ pc = "SLEEP" => slept = idx - 1 /\ Len(log) = idx
    /\ pc \in {"RANK", "DONE"} => slept = Len(UNIVERSE) /\ Len(log) = Len(UNIVERSE)
    /\ pc = "FATAL" => slept = Len(log) - 1

\* C9 witness: a finished scan of two tickers, the first skipped as not
\* reporting and the second accepted, with two delays made.
C9_Witness ==
    /\ pc = "DONE"
    /\ Len(log) = 2
    /\ ~reports_today(log[1].cal)
    /\ HasRow(UNIVERSE[2])
    /\ slept = 2

\* C10: a ticker whose historical-move estimator returned not-a-number has
\* no row, whatever the thresholds, and its loop body ends at the delay, not
\* in an error.
C10_NaNHistMoveNeverAccepted ==
    \A i \in 1..Len(log) :
        ("hist_move" \in log[i].invoked /\ log[i].hm.k = "nan") =>
            /\ log[i].score.underpricing.k = "nan"
            /\ ~HasRow(UNIVERSE[i])
            /\ ~InTable(UNIVERSE[i])
            /\ (i = Len(log) => pc # "FATAL")

\* C10 witness: the price-history fetch raised for the first ticker while its
\* probabilities pass min_prob; the scan went on and accepted the second.
C10_Witness ==
    /\ pc = "DONE"
    /\ Len(log) = 2
    /\ log[1].hist.kind = "error"
    /\ log[1].scored
    /\ FGe(log[1].score.squeeze, min_prob)
    /\ HasRow(UNIVERSE[2])

====
